---- MODULE Spec2Model ----
(***************************************************************************)
(* lokalise-bulk-add-keys: one run of the command line tool (src/main.rs). *)
(* The run reads and parses the input file, lists the projects, pages      *)
(* through the existing keys of the chosen project, checks the requested   *)
(* keys against them and posts one bulk-create request.  The remote        *)
(* service, the file system and the environment are inputs: the file, the  *)
(* options and the token are drawn in Init, every response is drawn when   *)
(* its request is made.                                                    *)
(***************************************************************************)
EXTENDS Integers, Sequences, FiniteSets

(***************************************************************************)
(* Bounds of the model.                                                    *)
(***************************************************************************)
MaxKeys == 3
MaxPages == 3

(***************************************************************************)
(* Program constants.                                                      *)
(***************************************************************************)
limit == 1000

SeqsUpTo(S, n) == UNION {[1..k -> S] : k \in 0..n}

(***************************************************************************)
(* struct KeyName: the four per-platform names of a remote key.            *)
(***************************************************************************)
KeyName(i, a, w, o) == [ios |-> i, android |-> a, web |-> w, other |-> o]

Uniform(n) == KeyName(n, n, n, n)

\* Remote keys whose platform names differ: in the last field only, and
\* between ios and android.
Mixed == KeyName("c", "c", "c", "y")
MixedIos == KeyName("a", "b", "a", "a")

(***************************************************************************)
(* A listing page of the remote service: size keys, the entries of seed    *)
(* repeated in turn.  PageKeys(d) is the key list the response carries.    *)
(***************************************************************************)
Seeds ==
    { <<Uniform("a")>>, <<Uniform("c")>>, <<Uniform("c"), Uniform("a")>>,
      <<Mixed>>, <<Uniform("a"), Mixed>>, <<MixedIos>> }

ShortSizes == {400, 999}

EmptyPage == [size |-> 0, seed |-> <<>>]

FullPages == {[size |-> limit, seed |-> s] : s \in Seeds}

ShortPages == {EmptyPage} \cup {[size |-> n, seed |-> s] : n \in ShortSizes, s \in Seeds}

PageKeys(d) == [i \in 1..d.size |-> d.seed[((i - 1) % Len(d.seed)) + 1]]

\* The names the key_names set of all_keys can hold: the ios names in Seeds.
ListedNames == UNION {{s[i].ios : i \in 1..Len(s)} : s \in Seeds}

(***************************************************************************)
(* The input file.  A key object is the sequence of its mapping entries    *)
(* in document order; a YAML mapping has each field at most once.          *)
(***************************************************************************)
Entry(f, v) == [field |-> f, value |-> v]

EKey(n) == Entry("key", n)
ETranslation == Entry("translation", "Hello")
ETranslations == Entry("translations", [singular |-> "Item", plural |-> "Items"])
ETags == Entry("tags", <<"ui">>)

KeyObjects ==
    { <<EKey("a"), ETranslation>>,
      <<EKey("b"), ETranslations, ETags>>,
      <<ETags, EKey("c"), ETranslation>>,
      <<EKey("a"), ETranslations, ETranslation>>,
      <<EKey("b"), ETags>>,
      <<ETranslation>> }

Files ==
    {[tag |-> "unreadable"], [tag |-> "malformed"]}
        \cup {[tag |-> "doc", keys |-> ks] : ks \in SeqsUpTo(KeyObjects, MaxKeys)}

Fields(obj) == {obj[i].field : i \in 1..Len(obj)}

Ok(v) == [tag |-> "ok", val |-> v]
Err(m) == [tag |-> "err", msg |-> m]

(***************************************************************************)
(* enum Translation, deserialized from the flattened entries of the key    *)
(* object: the first entry, in document order, whose field names a variant *)
(* selects it; the entries after it are not looked at.                     *)
(***************************************************************************)
RECURSIVE TranslationFrom(_)
TranslationFrom(entries) ==
    IF entries = <<>>
    THEN Err([tag |-> "yaml", what |-> "no variant of enum Translation found in flattened data"])
    ELSE IF Head(entries).field = "translation"
         THEN Ok([variant |-> "Singular", text |-> Head(entries).value])
         ELSE IF Head(entries).field = "translations"
              THEN Ok([variant |-> "Plural",
                       singular |-> Head(entries).value.singular,
                       plural |-> Head(entries).value.plural])
              ELSE TranslationFrom(Tail(entries))

FieldValue(obj, f) == obj[CHOOSE i \in 1..Len(obj) : obj[i].field = f].value

NotNamed(e) == e.field \notin {"key", "tags"}

(***************************************************************************)
(* struct KeyToAdd: key is required, tags defaults to empty, every         *)
(* other entry is handed to the flattened Translation.                     *)
(***************************************************************************)
ParseKeyToAdd(obj) ==
    IF "key" \notin Fields(obj)
    THEN Err([tag |-> "yaml", what |-> "missing field key"])
    ELSE LET translation == TranslationFrom(SelectSeq(obj, NotNamed))
         IN  IF translation.tag = "err"
             THEN translation
             ELSE Ok([key |-> FieldValue(obj, "key"),
                      translation |-> translation.val,
                      tags |-> IF "tags" \in Fields(obj)
                               THEN FieldValue(obj, "tags") ELSE <<>>])

RECURSIVE ParseKeys(_)
ParseKeys(objs) ==
    IF objs = <<>>
    THEN Ok(<<>>)
    ELSE LET first == ParseKeyToAdd(Head(objs))
         IN  IF first.tag = "err"
             THEN first
             ELSE LET rest == ParseKeys(Tail(objs))
                  IN  IF rest.tag = "err" THEN rest
                      ELSE Ok(<<first.val>> \o rest.val)

\* fs::read_to_string(..)? followed by serde_yaml::from_str::<Data>(..)?.keys
ReadAndParse(f) ==
    IF f.tag = "unreadable"
    THEN Err([tag |-> "io", what |-> "No such file or directory"])
    ELSE IF f.tag = "malformed"
         THEN Err([tag |-> "yaml", what |-> "malformed document"])
         ELSE ParseKeys(f.keys)

(***************************************************************************)
(* State of the run.                                                       *)
(***************************************************************************)
VARIABLES
    pc,           \* position of try_main
    opt,          \* struct Opt
    file,         \* what is at opt.input
    env_token,    \* LOKALISE_API_TOKEN in the environment
    keys_to_add,  \* Vec<KeyToAdd>
    project,      \* the project found by name
    key_names,    \* all_keys: the accumulating HashSet
    page,         \* all_keys: the page to request next
    all_keys,     \* the set all_keys returned
    requests,     \* every request sent, in order
    fetched,      \* every listing page received and decoded, in order
    create_resp,  \* the body received for the create request
    stdout,       \* lines printed
    result,       \* what try_main returned
    exit_code     \* exit status of the process

vars == <<pc, opt, file, env_token, keys_to_add, project, key_names, page,
          all_keys, requests, fetched, create_resp, stdout, result, exit_code>>

None == [tag |-> "none"]

Tokens == {[tag |-> "unset"], [tag |-> "set", valid |-> TRUE], [tag |-> "set", valid |-> FALSE]}

\* The locals key_names and page of all_keys hold what lines 121-123 give
\* them from the start.
Init ==
    /\ pc = "start"
    /\ opt \in [project : {"app"}, dry_run : BOOLEAN]
    /\ file \in Files
    /\ env_token \in Tokens
    /\ keys_to_add = <<>>
    /\ project = None
    /\ key_names = {}
    /\ page = 1
    /\ all_keys = None
    /\ requests = <<>>
    /\ fetched = <<>>
    /\ create_resp = None
    /\ stdout = <<>>
    /\ result = [tag |-> "running"]
    /\ exit_code = 0

\* Fail without leaving the step: the error is recorded and the run goes on.
FailAndGoOn(m) ==
    /\ pc' = pc
    /\ result' = Err(m)
    /\ exit_code' = 1

\* try_main returns Err(m): main prints it to stderr and exits with 1.
Fail(m) ==
    /\ pc' = "done"
    /\ result' = Err(m)
    /\ exit_code' = 1

\* try_main returns Ok(()).
Succeed ==
    /\ pc' = "done"
    /\ result' = [tag |-> "ok"]
    /\ exit_code' = 0

\* lines 42-43
ReadInput ==
    /\ pc = "start"
    /\ LET parsed == ReadAndParse(file)
       IN  IF parsed.tag = "err"
           THEN /\ Fail(parsed.msg)
                /\ UNCHANGED keys_to_add
           ELSE /\ keys_to_add' = parsed.val
                /\ pc' = "dry_run"
                /\ UNCHANGED <<result, exit_code>>
    /\ UNCHANGED <<opt, file, env_token, project, key_names, page, all_keys,
                   requests, fetched, create_resp, stdout>>

\* DryRun without the test of the flag.
DryRunIgnored ==
    /\ pc = "dry_run"
    /\ pc' = "token"
    /\ UNCHANGED <<opt, file, env_token, keys_to_add, project, key_names, page,
                   all_keys, requests, fetched, create_resp, stdout, result, exit_code>>

\* lines 45-48
DryRun ==
    /\ pc = "dry_run"
    /\ IF opt.dry_run
       THEN /\ stdout' = Append(stdout, [tag |-> "debug", keys |-> keys_to_add])
            /\ Succeed
       ELSE /\ pc' = "token"
            /\ UNCHANGED <<stdout, result, exit_code>>
    /\ UNCHANGED <<opt, file, env_token, keys_to_add, project, key_names, page,
                   all_keys, requests, fetched, create_resp>>

\* lines 50-53: env::var(..)? and LokaliseClient::new(..)?
GetToken ==
    /\ pc = "token"
    /\ IF env_token.tag = "unset"
       THEN Fail([tag |-> "msg", text |-> "Missing env var LOKALISE_API_TOKEN"])
       ELSE IF ~env_token.valid
            THEN Fail([tag |-> "header", what |-> "failed to parse header value"])
            ELSE /\ pc' = "projects"
                 /\ UNCHANGED <<result, exit_code>>
    /\ UNCHANGED <<opt, file, env_token, keys_to_add, project, key_names, page,
                   all_keys, requests, fetched, create_resp, stdout>>

(***************************************************************************)
(* The remote service.  A response is a transport or decoding failure, or  *)
(* the decoded value.                                                      *)
(***************************************************************************)
Failure == [tag |-> "failure"]

Request(m, p, q, b) == [method |-> m, path |-> p, query |-> q, body |-> b]

NoQuery == <<>>
NoBody == <<>>

\* struct Project
Project(i, n, l) == [id |-> i, name |-> n, base_language_iso |-> l]

ProjectLists ==
    { <<>>,
      <<Project("p0", "web", "da")>>,
      <<Project("p0", "web", "da"), Project("p1", "app", "en"), Project("p2", "app", "de")>> }

\* projects.into_iter().find(|p| p.name == opt.project)
RECURSIVE Find(_, _)
Find(projects, name) ==
    IF projects = <<>>
    THEN None
    ELSE IF Head(projects).name = name
         THEN [tag |-> "some", val |-> Head(projects)]
         ELSE Find(Tail(projects), name)

\* lines 55-59 and 109-118
Projects ==
    /\ pc = "projects"
    /\ requests' = Append(requests, Request("GET", <<"projects">>, NoQuery, NoBody))
    /\ \/ /\ Fail([tag |-> "reqwest", what |-> "projects"])
          /\ UNCHANGED project
       \/ \E projects \in ProjectLists :
             LET found == Find(projects, opt.project)
             IN  IF found.tag = "none"
                 THEN /\ Fail([tag |-> "no_project", name |-> opt.project])
                      /\ UNCHANGED project
                 ELSE /\ project' = found.val
                      /\ pc' = "all_keys"
                      /\ UNCHANGED <<result, exit_code>>
    /\ UNCHANGED <<opt, file, env_token, keys_to_add, key_names, page,
                   all_keys, fetched, create_resp, stdout>>

\* SameOnAllPlatforms without the comparison with other.
SameOnFirstThree(key) ==
    key.ios = key.android /\ key.android = key.web

\* line 138
SameOnAllPlatforms(key) ==
    key.ios = key.android /\ key.android = key.web /\ key.web = key.other

\* ForKeys into a set that starts empty on every page.
ForKeysFresh(keys, names) ==
    IF \E i \in 1..Len(keys) : ~SameOnAllPlatforms(keys[i])
    THEN Err([tag |-> "msg", text |-> "Key with different names per platform isn't supported"])
    ELSE Ok({keys[i].ios : i \in 1..Len(keys)})

\* lines 136-145: the loop over the keys of one page returns the error at
\* the first key whose names differ, and has otherwise inserted every name.
ForKeys(keys, names) ==
    IF \E i \in 1..Len(keys) : ~SameOnAllPlatforms(keys[i])
    THEN Err([tag |-> "msg", text |-> "Key with different names per platform isn't supported"])
    ELSE Ok(names \cup {keys[i].ios : i \in 1..Len(keys)})

\* Each page the service can answer with, as the response carries it, and the
\* outcome of the loop for each content of key_names, tabulated once.
Listing == {<<d, PageKeys(d)>> : d \in FullPages \cup ShortPages}

KeysOf(d) == (CHOOSE t \in Listing : t[1] = d)[2]

Inserting ==
    {<<t[1], names, ForKeys(t[2], names)>> : t \in Listing, names \in SUBSET ListedNames}

Inserted(d, names) == (CHOOSE t \in Inserting : t[1] = d /\ t[2] = names)[3]

\* LastPage with <= for <.
LastPageLe(keys_count) == keys_count <= limit

\* line 147
LastPage(keys_count) == keys_count < limit

\* line 151
NextPage(p) == p + 1

\* The pages the service may answer with: it holds at most MaxPages - 1
\* full pages of keys.
PagesAt(p) == IF p < MaxPages THEN FullPages \cup ShortPages ELSE ShortPages

\* lines 125-154: one iteration of the loop of all_keys
AllKeysPage ==
    /\ pc = "all_keys"
    /\ requests' = Append(requests,
            Request("GET", <<"projects", project.id, "keys">>,
                    [limit |-> limit, page |-> page], NoBody))
    /\ \/ /\ Fail([tag |-> "reqwest", what |-> "keys"])
          /\ key_names' = {}
          /\ UNCHANGED <<page, all_keys, fetched>>
       \/ \E d \in PagesAt(page) :
             LET keys == KeysOf(d)
                 keys_count == Len(keys)
                 inserted == Inserted(d, key_names)
             IN  /\ fetched' = Append(fetched, d)
                 /\ IF inserted.tag = "err"
                    THEN /\ Fail(inserted.msg)
                         /\ key_names' = {}
                         /\ UNCHANGED <<page, all_keys>>
                    ELSE IF LastPage(keys_count)
                         THEN /\ key_names' = inserted.val
                              /\ all_keys' = [tag |-> "set", val |-> inserted.val]
                              /\ pc' = "pre_check"
                              /\ UNCHANGED <<page, result, exit_code>>
                         ELSE /\ key_names' = inserted.val
                              /\ page' = NextPage(page)
                              /\ UNCHANGED <<pc, all_keys, result, exit_code>>
    /\ UNCHANGED <<opt, file, env_token, keys_to_add, project, create_resp, stdout>>

\* FirstExisting searching from the end of the input.
RECURSIVE LastExisting(_, _)
LastExisting(keys, existing) ==
    IF keys = <<>>
    THEN None
    ELSE IF keys[Len(keys)].key \in existing
         THEN [tag |-> "some", val |-> keys[Len(keys)].key]
         ELSE LastExisting(SubSeq(keys, 1, Len(keys) - 1), existing)

\* lines 62-66: the first requested key, in input order, that already exists
RECURSIVE FirstExisting(_, _)
FirstExisting(keys, existing) ==
    IF keys = <<>>
    THEN None
    ELSE IF Head(keys).key \in existing
         THEN [tag |-> "some", val |-> Head(keys).key]
         ELSE FirstExisting(Tail(keys), existing)

PreCheck ==
    /\ pc = "pre_check"
    /\ LET dup == FirstExisting(keys_to_add, all_keys.val)
       IN  IF dup.tag = "some"
           THEN Fail([tag |-> "exists", key |-> dup.val])
           ELSE /\ pc' = "create_keys"
                /\ UNCHANGED <<result, exit_code>>
    /\ UNCHANGED <<opt, file, env_token, keys_to_add, project, key_names, page,
                   all_keys, requests, fetched, create_resp, stdout>>

(***************************************************************************)
(* create_keys: the request body (lines 158-187).                          *)
(***************************************************************************)
TranslationJson(proj, t) ==
    IF t.variant = "Singular"
    THEN [language_iso |-> proj.base_language_iso,
          translation |-> [tag |-> "text", text |-> t.text]]
    ELSE [language_iso |-> proj.base_language_iso,
          translation |-> [tag |-> "forms", one |-> t.singular, other |-> t.plural]]

KeyJson(proj, key) ==
    [key_name |-> key.key,
     translations |-> <<TranslationJson(proj, key.translation)>>,
     is_plural |-> (key.translation.variant = "Plural"),
     platforms |-> <<"ios", "android", "web", "other">>,
     tags |-> key.tags]

Payload(proj, keys) == [keys |-> [i \in 1..Len(keys) |-> KeyJson(proj, keys[i])]]

(***************************************************************************)
(* The JSON body of the create response: what it has under "keys" and      *)
(* under "error".  The decoders ignore every other field.                  *)
(***************************************************************************)
Absent == [tag |-> "absent"]
Other == [tag |-> "other"]
KeyList(ks) == [tag |-> "list", val |-> ks]
ErrorObject(c, m) == [tag |-> "object", code |-> c, message |-> m]

Body(k, e) == [keys |-> k, error |-> e]

CreatedLists ==
    { <<>>, <<Uniform("a")>>, <<Uniform("b")>>, <<Uniform("c")>>,
      <<KeyName("b", "x", "x", "x")>>, <<Uniform("a"), Uniform("a")>>,
      <<Uniform("b"), Uniform("a")>>, <<Uniform("a"), Uniform("c")>>,
      <<Uniform("c"), Uniform("b")>>, <<Uniform("c"), Uniform("b"), Uniform("a")>> }

ErrorObjects ==
    { ErrorObject(401, "Unauthorized"), ErrorObject(403, "Unauthorized"),
      ErrorObject(400, "Invalid request") }

Bodies ==
    {Body(KeyList(ks), Absent) : ks \in CreatedLists}
        \cup {Body(Absent, e) : e \in ErrorObjects}
        \cup {Body(KeyList(ks), ErrorObject(401, "Unauthorized")) :
                  ks \in {<<>>, <<Uniform("b")>>}}
        \cup { Body(KeyList(<<Uniform("b")>>), Other),
               Body(Absent, Absent), Body(Other, Other),
               Body(Absent, ErrorObject(-1, "Invalid request")) }

\* serde_json::from_value::<KeysResponse>
DecodeKeysResponse(body) ==
    IF body.keys.tag = "list" THEN Ok([keys |-> body.keys.val]) ELSE Err("KeysResponse")

\* serde_json::from_value::<ErrorResponse>; code is a u32, so a negative
\* number does not decode (no code above the range of u32 is drawn)
DecodeErrorResponse(body) ==
    IF body.error.tag = "object" /\ body.error.code >= 0
    THEN Ok([error |-> [code |-> body.error.code, message |-> body.error.message]])
    ELSE Err("ErrorResponse")

\* Arm trying the keys shape first and the error shape only if it fails.
ArmKeysFirst(resp_as_keys, resp_as_error) ==
    IF resp_as_keys.tag = "ok" THEN "keys"
    ELSE IF resp_as_error.tag = "ok" THEN "error"
    ELSE "neither"

\* lines 200-220: which arm of the match is taken
Arm(resp_as_keys, resp_as_error) ==
    IF resp_as_keys.tag = "ok" /\ resp_as_error.tag = "err" THEN "keys"
    ELSE IF resp_as_keys.tag = "err" /\ resp_as_error.tag = "ok" THEN "error"
    ELSE IF resp_as_keys.tag = "ok" /\ resp_as_error.tag = "ok" THEN "both"
    ELSE "neither"

\* lines 203-214: "Lokalise request failed", then "Got <code> <message>"
RemoteFailed(error) ==
    IF error.message = "Unauthorized"
    THEN [tag |-> "request_failed", code |-> 401,
          message |-> "unauthorized. Please ensure your auth token is correct and has both read and write permissions"]
    ELSE [tag |-> "request_failed", code |-> error.code, message |-> error.message]

\* lines 222-225
CreatedKeysOf(keys) == {keys[i].ios : i \in 1..Len(keys)}

\* lines 227-235
RECURSIVE Partition(_, _, _, _)
Partition(keys, created_keys, keys_created, keys_not_created) ==
    IF keys = <<>>
    THEN [keys_created |-> keys_created, keys_not_created |-> keys_not_created]
    ELSE IF Head(keys).key \in created_keys
         THEN Partition(Tail(keys), created_keys,
                        Append(keys_created, Head(keys).key), keys_not_created)
         ELSE Partition(Tail(keys), created_keys,
                        keys_created, Append(keys_not_created, Head(keys).key))

Line(mark, names) == [i \in 1..Len(names) |-> [tag |-> mark, key |-> names[i]]]

\* Report failing only when no key at all was created.
ReportLenient(parts) ==
    /\ IF parts.keys_created = <<>> /\ parts.keys_not_created = <<>>
       THEN /\ stdout' = Append(stdout, [tag |-> "nothing", key |-> ""])
            /\ Succeed
       ELSE /\ stdout' = stdout \o Line("created", parts.keys_created)
                                \o Line("not_created", parts.keys_not_created)
            /\ IF parts.keys_created = <<>>
               THEN Fail([tag |-> "msg", text |-> "Failed to create some keys"])
               ELSE Succeed

\* lines 237-254
Report(parts) ==
    /\ IF parts.keys_created = <<>> /\ parts.keys_not_created = <<>>
       THEN /\ stdout' = Append(stdout, [tag |-> "nothing", key |-> ""])
            /\ Succeed
       ELSE /\ stdout' = stdout \o Line("created", parts.keys_created)
                                \o Line("not_created", parts.keys_not_created)
            /\ IF parts.keys_not_created # <<>>
               THEN Fail([tag |-> "msg", text |-> "Failed to create some keys"])
               ELSE Succeed

\* line 68 and lines 157-255
CreateKeys ==
    /\ pc = "create_keys"
    /\ requests' = Append(requests,
            Request("POST", <<"projects", project.id, "keys">>, NoQuery,
                    Payload(project, keys_to_add)))
    /\ \/ /\ Fail([tag |-> "reqwest", what |-> "create"])
          /\ create_resp' = Failure
          /\ UNCHANGED stdout
       \/ \E resp \in Bodies :
             LET resp_as_keys == DecodeKeysResponse(resp)
                 resp_as_error == DecodeErrorResponse(resp)
                 arm == Arm(resp_as_keys, resp_as_error)
             IN  /\ create_resp' = [tag |-> "body", val |-> resp]
                 /\ IF arm = "keys"
                    THEN Report(Partition(keys_to_add,
                                          CreatedKeysOf(resp_as_keys.val.keys),
                                          <<>>, <<>>))
                    ELSE /\ UNCHANGED stdout
                         /\ IF arm = "error"
                            THEN Fail(RemoteFailed(resp_as_error.val.error))
                            ELSE IF arm = "both"
                                 THEN Fail([tag |-> "msg", text |-> "Lokalise request both failed and succeeded...?"])
                                 ELSE Fail([tag |-> "msg", text |-> "Failed to parse lokalise response"])
    /\ UNCHANGED <<opt, file, env_token, keys_to_add, project, key_names, page,
                   all_keys, fetched>>

Next ==
    \/ ReadInput
    \/ DryRun
    \/ GetToken
    \/ Projects
    \/ AllKeysPage
    \/ PreCheck
    \/ CreateKeys

Spec == Init /\ [][Next]_vars

(***************************************************************************)
(* What the claims are stated over.                                        *)
(***************************************************************************)
IsProjects(r) == r.method = "GET" /\ Len(r.path) = 1
IsListing(r) == r.method = "GET" /\ Len(r.path) = 3
IsCreate(r) == r.method = "POST"

Listings == SelectSeq(requests, IsListing)
Creates == SelectSeq(requests, IsCreate)

Sizes == [i \in 1..Len(fetched) |-> fetched[i].size]

\* The ios names on a page and whether some key of it has differing names,
\* read off the key list of the page.
NamesOn == {<<t[1], {t[2][i].ios : i \in 1..Len(t[2])}>> : t \in Listing}
NamesOnPage(d) == (CHOOSE t \in NamesOn : t[1] = d)[2]

Differing(k) == Cardinality({k.ios, k.android, k.web, k.other}) > 1
DifferingOn == {t[1] : t \in {u \in Listing : \E i \in 1..Len(u[2]) : Differing(u[2][i])}}

RECURSIVE Sum(_)
Sum(q) == IF q = <<>> THEN 0 ELSE Head(q) + Sum(Tail(q))

Requested == [i \in 1..Len(keys_to_add) |-> keys_to_add[i].key]

\* C1: the listing requests are for pages 1, 2, 3, ... with page size 1000; a
\* page is requested only after every page before it came back with exactly
\* 1000 keys; the listing ends only with a page of fewer than 1000 keys, so
\* the number of requests is the index of the first such page; and after a
\* page of exactly 1000 acceptable keys the next page is about to be requested.
C1_StopsAtFirstShortPage ==
    /\ \A i \in 1..Len(Listings) :
          /\ Listings[i].query.page = i
          /\ Listings[i].query.limit = 1000
          /\ \A j \in 1..(i - 1) : j <= Len(fetched) /\ fetched[j].size = 1000
    /\ all_keys.tag = "set" =>
          /\ Len(Listings) = Len(fetched)
          /\ fetched[Len(fetched)].size < 1000
          /\ \A j \in 1..(Len(fetched) - 1) : fetched[j].size = 1000
    /\ (fetched # <<>> /\ fetched[Len(fetched)].size = 1000 /\ result.tag = "running") =>
          /\ pc = "all_keys"
          /\ page = Len(fetched) + 1
          /\ all_keys.tag = "none"

C1_Witness ==
    /\ all_keys.tag = "set"
    /\ Sizes = <<1000, 0>>
    /\ Len(Listings) = 2

\* C2: when all_keys returns a set (every listed key has four identical
\* names), the set is exactly the union of the names of all the pages it
\* fetched, the last, short one included, one request was made per page, and
\* the set has no more elements than keys were listed.
C2_UnionOfFetchedPages ==
    all_keys.tag = "set" =>
        /\ all_keys.val = UNION {NamesOnPage(fetched[i]) : i \in 1..Len(fetched)}
        /\ Len(Listings) = Len(fetched)
        /\ Cardinality(all_keys.val) <= Sum(Sizes)

C2_Witness ==
    /\ all_keys.tag = "set"
    /\ Sizes = <<1000, 1000, 400>>
    /\ Len(Listings) = 3
    /\ NamesOnPage(fetched[1]) = {"a"}
    /\ NamesOnPage(fetched[3]) = {"a", "c"}
    /\ all_keys.val = {"a", "c"}

\* C3: no create request is sent unless the listing returned and none of the
\* requested keys is in it; once the pre-check has run, a requested key that
\* exists makes the run fail with the error naming the first such key in
\* input order, and no create request is sent.
C3_PreCheckBeforeWrite ==
    /\ Creates # <<>> =>
          /\ all_keys.tag = "set"
          /\ \A i \in 1..Len(Requested) : Requested[i] \notin all_keys.val
    /\ pc \in {"start", "dry_run", "token", "projects", "all_keys", "pre_check"} =>
          Creates = <<>>
    /\ ( /\ all_keys.tag = "set"
         /\ pc \in {"create_keys", "done"}
         /\ \E i \in 1..Len(Requested) : Requested[i] \in all_keys.val ) =>
          LET first == CHOOSE i \in 1..Len(Requested) :
                           /\ Requested[i] \in all_keys.val
                           /\ \A j \in 1..(i - 1) : Requested[j] \notin all_keys.val
          IN  /\ pc = "done"
              /\ result = Err([tag |-> "exists", key |-> Requested[first]])
              /\ exit_code = 1
              /\ Creates = <<>>

C3_Witness ==
    /\ pc = "done"
    /\ Requested = <<"b", "a", "c">>
    /\ all_keys.tag = "set"
    /\ all_keys.val = {"a", "c"}
    /\ result = Err([tag |-> "exists", key |-> "a"])

\* C4: a key with differing platform names on a fetched page ends the run:
\* the page is the last one requested, all_keys returns the error and no
\* set, the names gathered so far are dropped, and neither the pre-check
\* nor a create request follows.
C4_DifferingNamesAreFatal ==
    (\E i \in 1..Len(fetched) : fetched[i] \in DifferingOn) =>
        /\ pc = "done"
        /\ result = Err([tag |-> "msg", text |-> "Key with different names per platform isn't supported"])
        /\ exit_code = 1
        /\ all_keys.tag = "none"
        /\ key_names = {}
        /\ \A i \in 1..(Len(fetched) - 1) : fetched[i] \notin DifferingOn
        /\ Len(Listings) = Len(fetched)
        /\ Creates = <<>>
        /\ stdout = <<>>

C4_Witness ==
    /\ Len(fetched) = 2
    /\ NamesOnPage(fetched[1]) = {"a", "c"}
    /\ fetched[2].seed = <<Uniform("a"), Mixed>>
    /\ fetched[2] \in DifferingOn
    /\ pc = "done"
    /\ all_keys.tag = "none"

HasBoth(obj) == {"translation", "translations"} \subseteq Fields(obj)
HasNeither(obj) == {"translation", "translations"} \cap Fields(obj) = {}

AsKeys(b) == b.keys.tag = "list"
AsError(b) == b.error.tag = "object" /\ b.error.code >= 0

Indicators(mark) ==
    LET Marked(l) == l.tag = mark
        lines == SelectSeq(stdout, Marked)
    IN  [i \in 1..Len(lines) |-> lines[i].key]

Reconciled ==
    \/ result.tag = "ok"
    \/ result = Err([tag |-> "msg", text |-> "Failed to create some keys"])

\* C5: once the create response body has been handled, the keys were
\* reconciled if and only if the body decodes as the keys shape and not as
\* the error shape; a body of the error shape only fails the run with the
\* token message when its message is exactly "Unauthorized" and with the
\* remote code and message otherwise; a body of both shapes or of neither
\* fails the run with an error of its own; and no failing case prints an
\* indicator.
C5_ResponseDisambiguation ==
    (pc = "done" /\ create_resp.tag = "body") =>
        LET b == create_resp.val
        IN  /\ Reconciled <=> (AsKeys(b) /\ ~AsError(b))
            /\ (~AsKeys(b) /\ AsError(b)) =>
                  result = Err([tag |-> "request_failed",
                                code |-> IF b.error.message = "Unauthorized"
                                         THEN 401 ELSE b.error.code,
                                message |-> IF b.error.message = "Unauthorized"
                                            THEN "unauthorized. Please ensure your auth token is correct and has both read and write permissions"
                                            ELSE b.error.message])
            /\ (AsKeys(b) /\ AsError(b)) =>
                  result = Err([tag |-> "msg", text |-> "Lokalise request both failed and succeeded...?"])
            /\ (~AsKeys(b) /\ ~AsError(b)) =>
                  result = Err([tag |-> "msg", text |-> "Failed to parse lokalise response"])
            /\ ~(AsKeys(b) /\ ~AsError(b)) =>
                  /\ stdout = <<>>
                  /\ result.tag = "err"
                  /\ exit_code = 1

C5_Witness ==
    /\ pc = "done"
    /\ create_resp.tag = "body"
    /\ create_resp.val = Body(KeyList(<<Uniform("b")>>), ErrorObject(401, "Unauthorized"))
    /\ Requested = <<"b">>
    /\ result = Err([tag |-> "msg", text |-> "Lokalise request both failed and succeeded...?"])

\* C6: after a response of the keys shape every requested key has exactly
\* one indicator, a success if its name is an ios name of the response and a
\* failure if not, the successes and the failures each in input order; and
\* the run fails if and only if some requested key is not among them.
C6_Reconciliation ==
    ( /\ pc = "done"
      /\ create_resp.tag = "body"
      /\ AsKeys(create_resp.val)
      /\ ~AsError(create_resp.val) ) =>
        LET created == create_resp.val.keys.val
            confirmed == {created[i].ios : i \in 1..Len(created)}
            Confirmed(n) == n \in confirmed
            Unconfirmed(n) == n \notin confirmed
        IN  /\ Indicators("created") = SelectSeq(Requested, Confirmed)
            /\ Indicators("not_created") = SelectSeq(Requested, Unconfirmed)
            /\ Len(Indicators("created")) + Len(Indicators("not_created")) = Len(Requested)
            /\ \A i \in 1..Len(stdout) :
                  stdout[i].tag = "not_created" =>
                      \A j \in (i + 1)..Len(stdout) : stdout[j].tag = "not_created"
            /\ result.tag = "err" <=> (\E i \in 1..Len(Requested) : Requested[i] \notin confirmed)
            /\ exit_code = IF result.tag = "err" THEN 1 ELSE 0

C6_Witness ==
    /\ pc = "done"
    /\ file.tag = "doc"
    /\ \A i \in 1..Len(file.keys) : ~HasBoth(file.keys[i])
    /\ Requested = <<"c", "b", "a">>
    /\ create_resp.tag = "body"
    /\ create_resp.val = Body(KeyList(<<Uniform("a"), Uniform("c")>>), Absent)
    /\ stdout = << [tag |-> "created", key |-> "c"], [tag |-> "created", key |-> "a"],
                   [tag |-> "not_created", key |-> "b"] >>
    /\ result.tag = "err"

\* C7: a run whose input file has an empty keys list never sends a create
\* request, and ends the create step with the nothing-to-do report.
C7_EmptyInputSendsNoCreate ==
    (file.tag = "doc" /\ file.keys = <<>>) =>
        /\ Creates = <<>>
        /\ (pc = "done" /\ all_keys.tag = "set") =>
              /\ result.tag = "ok"
              /\ stdout = <<[tag |-> "nothing", key |-> ""]>>

\* C8: a key object with both translation and translations, or with
\* neither, ends the run with a parse error before any request; of the
\* objects of a file that parses, the one with only translation is Singular
\* and the one with only translations is Plural.
C8_ExactlyOneTranslationForm ==
    (file.tag = "doc" /\ pc # "start") =>
        /\ (\E i \in 1..Len(file.keys) : HasBoth(file.keys[i]) \/ HasNeither(file.keys[i])) =>
              /\ pc = "done"
              /\ result.tag = "err"
              /\ result.msg.tag = "yaml"
              /\ requests = <<>>
        /\ result.tag # "err" =>
              \A i \in 1..Len(file.keys) :
                  /\ Fields(file.keys[i]) \cap {"translation", "translations"} = {"translation"}
                        => keys_to_add[i].translation.variant = "Singular"
                  /\ Fields(file.keys[i]) \cap {"translation", "translations"} = {"translations"}
                        => keys_to_add[i].translation.variant = "Plural"

\* C9: the requests of a run are one list_projects request, then the listing
\* pages 1, 2, 3, ..., then at most one create request; a run that has
\* failed is over: it sends no request and its result stays.
RequestsInOrder ==
    /\ \A i \in 1..Len(requests) :
          /\ IsProjects(requests[i]) <=> i = 1
          /\ IsListing(requests[i]) => requests[i].query.page = i - 1
          /\ IsCreate(requests[i]) => (i = Len(requests) /\ i >= 3)
          /\ IsProjects(requests[i]) \/ IsListing(requests[i]) \/ IsCreate(requests[i])
    /\ Len(Creates) <= 1
    /\ result.tag = "err" => (pc = "done" /\ exit_code = 1)

C9_OrderAndTerminalErrors ==
    /\ []RequestsInOrder
    /\ [][result.tag = "err" => (requests' = requests /\ result' = result /\ pc' = "done")]_vars

C9_Witness ==
    /\ Len(requests) = 5
    /\ IsCreate(requests[5])
    /\ result.tag = "err"
    /\ result.msg.tag = "reqwest"

\* C10: with the dry-run flag the run sends no request and never reads the
\* token: it ends after parsing, with the decoded key list printed and
\* success if the file parses, with an error if it does not.
C10_DryRunContactsNothing ==
    opt.dry_run =>
        /\ requests = <<>>
        /\ pc \in {"start", "dry_run", "done"}
        /\ pc = "done" =>
              IF file.tag = "doc" /\ \A i \in 1..Len(file.keys) :
                                        /\ "key" \in Fields(file.keys[i])
                                        /\ ~HasNeither(file.keys[i])
              THEN /\ result.tag = "ok"
                   /\ exit_code = 0
                   /\ Len(keys_to_add) = Len(file.keys)
                   /\ stdout = <<[tag |-> "debug", keys |-> keys_to_add]>>
              ELSE /\ result.tag = "err"
                   /\ result.msg.tag \in {"io", "yaml"}
                   /\ exit_code = 1
                   /\ stdout = <<>>

C10_Witness ==
    /\ opt.dry_run
    /\ env_token.tag = "unset"
    /\ pc = "done"
    /\ result.tag = "ok"
    /\ Len(keys_to_add) = 2
    /\ stdout = <<[tag |-> "debug", keys |-> keys_to_add]>>
====
